---- MODULE Spec2Model ----
(***************************************************************************)
(* A model of the DCMotor handle of package ev3dev (src/ev3dev/dc_motor.go).*)
(*                                                                         *)
(* The handle is the pair (id, err).  The backing store is the directory   *)
(* of sysfs attribute files of the motor.  An attribute's raw text is a    *)
(* sequence of segments: a segment is either the single space " " or a     *)
(* non-empty run of non-space characters, and the text is the              *)
(* concatenation of its segments (the empty text is << >>).                *)
(*                                                                         *)
(* A time.Duration is an integer count of nanoseconds.  TLC's integers are *)
(* 32 bits wide, so the durations drawn as inputs stay below 2^31 ns.      *)
(***************************************************************************)
EXTENDS Integers, Sequences, FiniteSets, TLC

VARIABLES
    m,        \* the *DCMotor the caller holds: [nil, id, err]
    store,    \* the motor's attribute files: attribute name -> raw text
    devices,  \* the dc-motors present, in the enumerator's scan order
    call,     \* the operation that ran last and its arguments
    ret,      \* what that operation returned
    io,       \* the attribute reads and writes that operation performed
    chain,    \* the I/O and the stored error of each setter call since the last drain
    callers   \* the goroutines sharing the handle: where each is in its call

vars == <<m, store, devices, call, ret, io, chain, callers>>

----------------------------------------------------------------------------
(* Bounds of the model. *)

MaxChain == 3      \* setter calls between two drains of the deferred error
MaxDevices == 3    \* dc-motors the enumerator yields

----------------------------------------------------------------------------
(* Constants of the program. *)

Millisecond == 1000000        \* time.Millisecond, in nanoseconds
motorPrefix == "motor"

commands == "commands"
command == "command"
dutyCycleSetpoint == "duty_cycle_sp"
polarity == "polarity"
rampUpSetpoint == "ramp_up_sp"
rampDownSetpoint == "ramp_down_sp"
state == "state"
stopAction == "stop_action"
stopActions == "stop_actions"
timeSetpoint == "time_sp"
dutyCycle == "duty_cycle"
uevent == "uevent"

Attrs == {commands, command, dutyCycle, dutyCycleSetpoint, polarity, rampUpSetpoint,
          rampDownSetpoint, state, stopAction, stopActions, timeSetpoint, uevent}

Normal == "normal"
Inversed == "inversed"

----------------------------------------------------------------------------
(* Errors.  An error value is the record of what its message is built from.*)

NoErr == [kind |-> "nil", what |-> "", str |-> "", num |-> 0, dev |-> "", avail |-> << >>]

Errorf(kind, what, str, num, dev, avail) ==
    [kind |-> kind, what |-> what, str |-> str, num |-> num, dev |-> dev, avail |-> avail]

IOError(op, attr) == Errorf("io", op, attr, 0, "", << >>)

----------------------------------------------------------------------------
(* Text conversions. *)

Digit(d) ==
    CASE d = 0 -> "0" [] d = 1 -> "1" [] d = 2 -> "2" [] d = 3 -> "3" [] d = 4 -> "4"
      [] d = 5 -> "5" [] d = 6 -> "6" [] d = 7 -> "7" [] d = 8 -> "8" [] d = 9 -> "9"

RECURSIVE Sprint(_)
\* fmt.Sprint of an int: its decimal text.
Sprint(n) ==
    IF n < 0 THEN "-" \o Sprint(-n)
    ELSE IF n < 10 THEN Digit(n)
    ELSE Sprint(n \div 10) \o Digit(n % 10)

\* Go's integer division truncates toward zero.
Quo(a, b) == IF a >= 0 THEN a \div b ELSE -((-a) \div b)

\* The raw text of a Go string that holds no space.
TextOf(s) == IF s = "" THEN << >> ELSE <<s>>

RECURSIVE SplitFrom(_, _, _, _)
SplitFrom(data, i, cur, acc) ==
    IF i > Len(data) THEN Append(acc, cur)
    ELSE IF data[i] = " " THEN SplitFrom(data, i + 1, "", Append(acc, cur))
    ELSE SplitFrom(data, i + 1, cur \o data[i], acc)

\* strings.Split(data, " ")
Split(data) == SplitFrom(data, 1, "", << >>)

Contains(list, s) == \E i \in 1..Len(list) : list[i] = s

----------------------------------------------------------------------------
(* The handle. *)

NilMotor == [nil |-> TRUE, id |-> 0, err |-> NoErr]
DCMotor(id) == [nil |-> FALSE, id |-> id, err |-> NoErr]

String(h) == IF h.nil THEN motorPrefix \o "*" ELSE motorPrefix \o Sprint(h.id)

----------------------------------------------------------------------------
(* The attribute accessor.  A read or a write of an attribute file either  *)
(* succeeds or fails with an I/O error; ok is the environment's choice.    *)

Read(attr, ok) == [op |-> "read", attr |-> attr, data |-> << >>, ok |-> ok]
Write(attr, data, ok) == [op |-> "write", attr |-> attr, data |-> data, ok |-> ok]

attributeOf(st, attr, ok) ==
    IF ok THEN [data |-> st[attr], err |-> NoErr, io |-> Read(attr, TRUE)]
    ELSE [data |-> << >>, err |-> IOError("read", attr), io |-> Read(attr, FALSE)]

setAttributeOf(st, attr, data, ok) ==
    IF ok THEN [store |-> [st EXCEPT ![attr] = TextOf(data)], err |-> NoErr,
                io |-> Write(attr, TextOf(data), TRUE)]
    ELSE [store |-> st, err |-> IOError("write", attr),
          io |-> Write(attr, TextOf(data), FALSE)]

stringSliceFrom(r) ==
    IF r.err # NoErr THEN [list |-> << >>, err |-> r.err, io |-> r.io]
    ELSE [list |-> Split(r.data), err |-> NoErr, io |-> r.io]

\* What a method leaves behind: the handle, the store, its I/O.
Outcome(h, st, trace) == [h |-> h, store |-> st, io |-> trace]

WithErr(h, e) == [h EXCEPT !.err = e]

----------------------------------------------------------------------------
(* The setters, as functions of the handle h, the store st, the argument   *)
(* and the environment's choices rok (the read succeeds) and wok (the      *)
(* write succeeds).                                                        *)

\* Commands answering from the content the attribute had at construction.
CommandsCached(st, rok) ==
    stringSliceFrom(attributeOf([st EXCEPT ![commands] = <<"run-forever", " ", "stop">>],
                                commands, rok))

Commands(st, rok) == stringSliceFrom(attributeOf(st, commands, rok))

StopActions(st, rok) == stringSliceFrom(attributeOf(st, stopActions, rok))

\* Command that writes without looking the command up in the allow-list.
CommandUnchecked(h, st, comm, rok, wok) ==
    IF h.err # NoErr THEN Outcome(h, st, << >>)
    ELSE LET a == Commands(st, rok) IN
         IF a.err # NoErr THEN Outcome(WithErr(h, a.err), st, <<a.io>>)
         ELSE LET w == setAttributeOf(st, command, comm, wok) IN
              Outcome(WithErr(h, w.err), w.store, <<a.io, w.io>>)

CommandOf(h, st, comm, rok, wok) ==
    IF h.err # NoErr THEN Outcome(h, st, << >>)
    ELSE LET a == Commands(st, rok) IN
         IF a.err # NoErr THEN Outcome(WithErr(h, a.err), st, <<a.io>>)
         ELSE IF ~Contains(a.list, comm)
              THEN Outcome(WithErr(h, Errorf("not available", "command", comm, 0,
                                            String(h), a.list)), st, <<a.io>>)
              ELSE LET w == setAttributeOf(st, command, comm, wok) IN
                   Outcome(WithErr(h, w.err), w.store, <<a.io, w.io>>)

\* SetDutyCycleSetpoint with the range check off by one at both ends.
SetDutyCycleSetpointOpen(h, st, sp, wok) ==
    IF h.err # NoErr THEN Outcome(h, st, << >>)
    ELSE IF sp <= -100 \/ sp >= 100
         THEN Outcome(WithErr(h, Errorf("invalid", "duty cycle setpoint", Sprint(sp), sp,
                                       "", << >>)), st, << >>)
         ELSE LET w == setAttributeOf(st, dutyCycleSetpoint, Sprint(sp), wok) IN
              Outcome(WithErr(h, w.err), w.store, <<w.io>>)

\* SetDutyCycleSetpoint without the check of the deferred error.
SetDutyCycleSetpointUnguarded(h, st, sp, wok) ==
    IF sp < -100 \/ sp > 100
    THEN Outcome(WithErr(h, Errorf("invalid", "duty cycle setpoint", Sprint(sp), sp,
                                  "", << >>)), st, << >>)
    ELSE LET w == setAttributeOf(st, dutyCycleSetpoint, Sprint(sp), wok) IN
         Outcome(WithErr(h, w.err), w.store, <<w.io>>)

SetDutyCycleSetpointOf(h, st, sp, wok) ==
    IF h.err # NoErr THEN Outcome(h, st, << >>)
    ELSE IF sp < -100 \/ sp > 100
         THEN Outcome(WithErr(h, Errorf("invalid", "duty cycle setpoint", Sprint(sp), sp,
                                       "", << >>)), st, << >>)
         ELSE LET w == setAttributeOf(st, dutyCycleSetpoint, Sprint(sp), wok) IN
              Outcome(WithErr(h, w.err), w.store, <<w.io>>)

\* SetPolarity rejecting the empty polarity only.
SetPolarityNonEmpty(h, st, p, wok) ==
    IF h.err # NoErr THEN Outcome(h, st, << >>)
    ELSE IF p = ""
         THEN Outcome(WithErr(h, Errorf("invalid", "polarity", p, 0, "", << >>)), st, << >>)
         ELSE LET w == setAttributeOf(st, polarity, p, wok) IN
              Outcome(WithErr(h, w.err), w.store, <<w.io>>)

SetPolarityOf(h, st, p, wok) ==
    IF h.err # NoErr THEN Outcome(h, st, << >>)
    ELSE IF p # Normal /\ p # Inversed
         THEN Outcome(WithErr(h, Errorf("invalid", "polarity", p, 0, "", << >>)), st, << >>)
         ELSE LET w == setAttributeOf(st, polarity, p, wok) IN
              Outcome(WithErr(h, w.err), w.store, <<w.io>>)

SetRampUpSetpointOf(h, st, sp, wok) ==
    IF h.err # NoErr THEN Outcome(h, st, << >>)
    ELSE IF sp < 0 \/ sp > 10000
         THEN Outcome(WithErr(h, Errorf("invalid", "ramp up setpoint", "", sp, "", << >>)),
                      st, << >>)
         ELSE LET w == setAttributeOf(st, rampUpSetpoint,
                                      Sprint(Quo(sp, Millisecond)), wok) IN
              Outcome(WithErr(h, w.err), w.store, <<w.io>>)

SetRampDownSetpointOf(h, st, sp, wok) ==
    IF h.err # NoErr THEN Outcome(h, st, << >>)
    ELSE IF sp < 0 \/ sp > 10000
         THEN Outcome(WithErr(h, Errorf("invalid", "ramp down setpoint", "", sp, "", << >>)),
                      st, << >>)
         ELSE LET w == setAttributeOf(st, rampDownSetpoint,
                                      Sprint(Quo(sp, Millisecond)), wok) IN
              Outcome(WithErr(h, w.err), w.store, <<w.io>>)

\* SetStopAction dropping the error of the read of the allow-list.
SetStopActionDropsReadErr(h, st, action, rok, wok) ==
    IF h.err # NoErr THEN Outcome(h, st, << >>)
    ELSE LET a == StopActions(st, rok) IN
         IF ~Contains(a.list, action)
         THEN Outcome(WithErr(h, Errorf("not available", "stop action", action, 0,
                                       String(h), a.list)), st, <<a.io>>)
         ELSE LET w == setAttributeOf(st, stopAction, action, wok) IN
              Outcome(WithErr(h, w.err), w.store, <<a.io, w.io>>)

SetStopActionOf(h, st, action, rok, wok) ==
    IF h.err # NoErr THEN Outcome(h, st, << >>)
    ELSE LET a == StopActions(st, rok) IN
         IF a.err # NoErr THEN Outcome(WithErr(h, a.err), st, <<a.io>>)
         ELSE IF ~Contains(a.list, action)
              THEN Outcome(WithErr(h, Errorf("not available", "stop action", action, 0,
                                            String(h), a.list)), st, <<a.io>>)
              ELSE LET w == setAttributeOf(st, stopAction, action, wok) IN
                   Outcome(WithErr(h, w.err), w.store, <<a.io, w.io>>)

\* SetTimeSetpoint rounding to the nearest millisecond instead of truncating.
SetTimeSetpointRounds(h, st, sp, wok) ==
    IF h.err # NoErr THEN Outcome(h, st, << >>)
    ELSE LET w == setAttributeOf(st, timeSetpoint,
                                 Sprint(Quo(sp + Millisecond \div 2, Millisecond)), wok) IN
         Outcome(WithErr(h, w.err), w.store, <<w.io>>)

\* SetTimeSetpoint without the check of the deferred error.
SetTimeSetpointUnguarded(h, st, sp, wok) ==
    LET w == setAttributeOf(st, timeSetpoint, Sprint(Quo(sp, Millisecond)), wok) IN
    Outcome(WithErr(h, w.err), w.store, <<w.io>>)

SetTimeSetpointOf(h, st, sp, wok) ==
    IF h.err # NoErr THEN Outcome(h, st, << >>)
    ELSE LET w == setAttributeOf(st, timeSetpoint, Sprint(Quo(sp, Millisecond)), wok) IN
         Outcome(WithErr(h, w.err), w.store, <<w.io>>)

----------------------------------------------------------------------------
(* Err, State and discovery. *)

\* Err that returns the deferred error and leaves it in place.
ErrKeeps(h) == [h |-> h, err |-> h.err]

\* Err returns the deferred error and clears it.
ErrOf(h) == [h |-> WithErr(h, NoErr), err |-> h.err]

motorStateTable == [running |-> 1, ramping |-> 2, stalled |-> 4]

RECURSIVE BitOr(_, _)
BitOr(a, b) ==
    IF a = 0 THEN b
    ELSE IF b = 0 THEN a
    ELSE (IF a % 2 = 1 \/ b % 2 = 1 THEN 1 ELSE 0) + 2 * BitOr(a \div 2, b \div 2)

RECURSIVE StateLoopLenient(_, _, _)
\* The loop of State skipping the tokens the table does not hold.
StateLoopLenient(toks, i, stat) ==
    IF i > Len(toks) THEN [val |-> stat, err |-> NoErr]
    ELSE IF toks[i] \notin DOMAIN motorStateTable
         THEN StateLoopLenient(toks, i + 1, stat)
         ELSE StateLoopLenient(toks, i + 1, BitOr(stat, motorStateTable[toks[i]]))

RECURSIVE StateLoopFields(_, _, _)
\* The loop of State passing over the empty segments, as over strings.Fields.
StateLoopFields(toks, i, stat) ==
    IF i > Len(toks) THEN [val |-> stat, err |-> NoErr]
    ELSE IF toks[i] = "" THEN StateLoopFields(toks, i + 1, stat)
    ELSE IF toks[i] \notin DOMAIN motorStateTable
         THEN [val |-> 0, err |-> Errorf("unrecognized", "motor state value", toks[i], 0,
                                         "", toks)]
         ELSE StateLoopFields(toks, i + 1, BitOr(stat, motorStateTable[toks[i]]))

RECURSIVE StateLoop(_, _, _)
\* The loop over strings.Split(data, " "): the bits or'ed so far are stat.
StateLoop(toks, i, stat) ==
    IF i > Len(toks) THEN [val |-> stat, err |-> NoErr]
    ELSE IF toks[i] \notin DOMAIN motorStateTable
         THEN [val |-> 0, err |-> Errorf("unrecognized", "motor state value", toks[i], 0,
                                         "", toks)]
         ELSE StateLoop(toks, i + 1, BitOr(stat, motorStateTable[toks[i]]))

\* State returning the deferred error without clearing it.
StateKeeps(h, st, rok) ==
    IF h.err # NoErr
    THEN [h |-> h, val |-> 0, err |-> h.err, io |-> << >>]
    ELSE LET r == attributeOf(st, state, rok) IN
         IF r.err # NoErr THEN [h |-> h, val |-> 0, err |-> r.err, io |-> <<r.io>>]
         ELSE LET s == StateLoop(Split(r.data), 1, 0) IN
              [h |-> h, val |-> s.val, err |-> s.err, io |-> <<r.io>>]

StateOf(h, st, rok) ==
    IF h.err # NoErr
    THEN [h |-> ErrOf(h).h, val |-> 0, err |-> ErrOf(h).err, io |-> << >>]
    ELSE LET r == attributeOf(st, state, rok) IN
         IF r.err # NoErr THEN [h |-> h, val |-> 0, err |-> r.err, io |-> <<r.io>>]
         ELSE LET s == StateLoop(Split(r.data), 1, 0) IN
              [h |-> h, val |-> s.val, err |-> s.err, io |-> <<r.io>>]

NotFound == Errorf("not found", "", "", 0, "", << >>)
DriverMismatch(want, have) == Errorf("driver mismatch", want, have, 0, "", << >>)

RECURSIVE LastWith(_, _, _, _)
\* The index of the last candidate from i on whose field f equals v, or 0.
LastWith(devs, i, f, v) ==
    IF i > Len(devs) THEN 0
    ELSE IF LastWith(devs, i + 1, f, v) # 0 THEN LastWith(devs, i + 1, f, v)
    ELSE IF devs[i][f] = v THEN i
    ELSE 0

RECURSIVE FirstWith(_, _, _, _)
\* The index of the first candidate from i on whose field f equals v, or 0.
FirstWith(devs, i, f, v) ==
    IF i > Len(devs) THEN 0
    ELSE IF devs[i][f] = v THEN i
    ELSE FirstWith(devs, i + 1, f, v)

deviceIDFor(port, driver, devs) ==
    IF port = ""
    THEN LET i == FirstWith(devs, 1, "driver", driver) IN
         IF i = 0 THEN [id |-> -1, err |-> NotFound]
         ELSE [id |-> devs[i].id, err |-> NoErr]
    ELSE LET i == FirstWith(devs, 1, "port", port) IN
         IF i = 0 THEN [id |-> -1, err |-> NotFound]
         ELSE IF devs[i].driver # driver
              THEN [id |-> devs[i].id, err |-> DriverMismatch(driver, devs[i].driver)]
              ELSE [id |-> devs[i].id, err |-> NoErr]

\* DCMotorFor that returns no handle whenever deviceIDFor returns an error.
DCMotorForStrict(port, driver, devs) ==
    LET r == deviceIDFor(port, driver, devs) IN
    IF r.err # NoErr THEN [h |-> NilMotor, err |-> r.err]
    ELSE [h |-> DCMotor(r.id), err |-> r.err]

\* DCMotorFor without the test of the id against -1.
DCMotorForUntested(port, driver, devs) ==
    LET r == deviceIDFor(port, driver, devs) IN
    [h |-> DCMotor(r.id), err |-> r.err]

DCMotorFor(port, driver, devs) ==
    LET r == deviceIDFor(port, driver, devs) IN
    IF r.id = -1 THEN [h |-> NilMotor, err |-> r.err]
    ELSE [h |-> DCMotor(r.id), err |-> r.err]

----------------------------------------------------------------------------
(* The actions: one call of a method by the handle's single caller.        *)

Call(op, str, num) == [op |-> op, str |-> str, num |-> num, aux |-> ""]
Ret(h, val, err) == [h |-> h, val |-> val, err |-> err]

SetterOps == {"Command", "SetDutyCycleSetpoint", "SetPolarity", "SetRampUpSetpoint",
              "SetRampDownSetpoint", "SetStopAction", "SetTimeSetpoint"}

\* A setter call with outcome r; the setter returns the handle.
Setter(op, str, num, r) ==
    /\ ~m.nil
    /\ Len(chain) < MaxChain
    /\ m' = r.h
    /\ store' = r.store
    /\ io' = r.io
    /\ call' = Call(op, str, num)
    /\ ret' = Ret(r.h, 0, NoErr)
    /\ chain' = Append(chain, [io |-> r.io, err |-> r.h.err])
    /\ UNCHANGED <<devices, callers>>

Command(comm) ==
    \E r \in {CommandOf(m, store, comm, rok, wok) : rok, wok \in BOOLEAN} :
        Setter("Command", comm, 0, r)

SetDutyCycleSetpoint(sp) ==
    \E r \in {SetDutyCycleSetpointOf(m, store, sp, wok) : wok \in BOOLEAN} :
        Setter("SetDutyCycleSetpoint", "", sp, r)

SetPolarity(p) ==
    \E r \in {SetPolarityOf(m, store, p, wok) : wok \in BOOLEAN} :
        Setter("SetPolarity", p, 0, r)

SetRampUpSetpoint(sp) ==
    \E r \in {SetRampUpSetpointOf(m, store, sp, wok) : wok \in BOOLEAN} :
        Setter("SetRampUpSetpoint", "", sp, r)

SetRampDownSetpoint(sp) ==
    \E r \in {SetRampDownSetpointOf(m, store, sp, wok) : wok \in BOOLEAN} :
        Setter("SetRampDownSetpoint", "", sp, r)

SetStopAction(action) ==
    \E r \in {SetStopActionOf(m, store, action, rok, wok) : rok, wok \in BOOLEAN} :
        Setter("SetStopAction", action, 0, r)

SetTimeSetpoint(sp) ==
    \E r \in {SetTimeSetpointOf(m, store, sp, wok) : wok \in BOOLEAN} :
        Setter("SetTimeSetpoint", "", sp, r)

Err ==
    /\ ~m.nil
    /\ m' = ErrOf(m).h
    /\ ret' = Ret(ErrOf(m).h, 0, ErrOf(m).err)
    /\ io' = << >>
    /\ call' = Call("Err", "", 0)
    /\ chain' = << >>
    /\ UNCHANGED <<store, devices, callers>>

State ==
    \E rok \in BOOLEAN :
        LET r == StateOf(m, store, rok) IN
        /\ ~m.nil
        /\ m' = r.h
        /\ ret' = Ret(r.h, r.val, r.err)
        /\ io' = r.io
        /\ call' = Call("State", "", 0)
        /\ chain' = IF m.err # NoErr THEN << >> ELSE chain
        /\ UNCHANGED <<store, devices, callers>>

\* The device, or another process, changes an attribute file.
DeviceChange(attr, text) ==
    /\ store[attr] # text
    /\ store' = [store EXCEPT ![attr] = text]
    /\ call' = Call("DeviceChange", attr, 0)
    /\ io' = << >>
    /\ UNCHANGED <<m, devices, ret, chain, callers>>

\* setID assigning the id field only.
setIDKeepsErr(h, id) == [h EXCEPT !.id = id]

\* "*m = DCMotor{id: id}".
setIDOf(h, id) == DCMotor(id)

\* Re-discovery rebinds the handle the caller holds; setID returns nothing.
setID(id) ==
    /\ ~m.nil
    /\ m' = setIDOf(m, id)
    /\ call' = Call("setID", "", id)
    /\ io' = << >>
    /\ chain' = << >>
    /\ UNCHANGED <<store, devices, ret, callers>>

\* The caller discovers a motor and holds the handle DCMotorFor returns.
Discover(port, driver) ==
    LET r == DCMotorFor(port, driver, devices) IN
    /\ m' = r.h
    /\ ret' = Ret(r.h, 0, r.err)
    /\ call' = [Call("DCMotorFor", port, 0) EXCEPT !.aux = driver]
    /\ io' = << >>
    /\ chain' = << >>
    /\ UNCHANGED <<store, devices, callers>>

----------------------------------------------------------------------------
(* The initial states and the inputs drawn. *)

Ports == {"outA", "outB", "outC", "outD"}
Drivers == {"foo", "bar"}

\* The attribute files of a motor that has just been plugged in.
InitStore ==
    [a \in Attrs |->
        CASE a = commands -> <<"run-forever", " ", "stop">>
          [] a = stopActions -> <<"coast", " ", "brake">>
          [] a = stopAction -> <<"coast">>
          [] a = polarity -> <<Normal>>
          [] a = state -> <<"running", " ", "ramping">>
          [] a = command -> << >>
          [] a = uevent -> <<"DRIVER=foo", "\n", "PORT=outA">>
          [] OTHER -> <<"0">>]

\* One motor at outA; the caller holds the handle DCMotorFor returned for it.
\* The goroutines that may share the handle, each outside any call at first.
Callers == {"a", "b"}

Idle == [pc |-> "idle", num |-> 0, err |-> NoErr, io |-> << >>, late |-> FALSE, from |-> ""]

NoCalls ==
    [at |-> [t \in Callers |-> Idle],   \* each caller's position and locals
     owner |-> "",       \* the caller whose setter stored the deferred error, if any
     open |-> {},        \* the callers with setter calls not yet followed by their Err
     overlap |-> FALSE,  \* a call began while another caller's call was in progress
     mixed |-> FALSE,    \* a call began between another caller's setters and its Err
     lost |-> FALSE,     \* a setter wrote after a failure and replaced the error
     stolen |-> FALSE]   \* an Err returned an error another caller's setter stored

OneMotor == <<[id |-> 0, port |-> "outA", driver |-> "foo"]>>

Init ==
    /\ devices = OneMotor
    /\ m = DCMotorFor("outA", "foo", OneMotor).h
    /\ store = InitStore
    /\ call = Call("DCMotorFor", "outA", 0)
    /\ ret = Ret(m, 0, NoErr)
    /\ io = << >>
    /\ chain = << >>
    /\ callers = NoCalls

CommInputs == {"stop", "bogus"}
DutyInputs == {50, 101}
PolarityInputs == {Inversed, "Inversed"}
RampInputs == {5000, 1500 * Millisecond}
StopInputs == {"brake", "hold"}
TimeInputs == {1500 * Millisecond + 700000}

\* Every setter and the drain, by one caller.
Next ==
    \/ \E c \in CommInputs : Command(c)
    \/ \E sp \in DutyInputs : SetDutyCycleSetpoint(sp)
    \/ \E p \in PolarityInputs : SetPolarity(p)
    \/ \E sp \in RampInputs : SetRampUpSetpoint(sp)
    \/ \E sp \in RampInputs : SetRampDownSetpoint(sp)
    \/ \E a \in StopInputs : SetStopAction(a)
    \/ \E sp \in TimeInputs : SetTimeSetpoint(sp)
    \/ Err

Spec == Init /\ [][Next]_vars

----------------------------------------------------------------------------
(* The claims. *)

\* The successful writes among the I/O of one call.
Wrote(trace) == \E j \in 1..Len(trace) : trace[j].op = "write" /\ trace[j].ok

RECURSIVE AfterWrites(_, _, _)
\* The store st after the successful writes of trace, from entry j on.
AfterWrites(st, trace, j) ==
    IF j > Len(trace) THEN st
    ELSE IF trace[j].op = "write" /\ trace[j].ok
         THEN AfterWrites([st EXCEPT ![trace[j].attr] = trace[j].data], trace, j + 1)
         ELSE AfterWrites(st, trace, j + 1)

RECURSIVE FirstFailFrom(_, _)
FirstFailFrom(c, i) ==
    IF i > Len(c) THEN 0
    ELSE IF c[i].err # NoErr THEN i
    ELSE FirstFailFrom(c, i + 1)

\* The index of the first call of the chain c that stored an error, or 0.
FirstFail(c) == FirstFailFrom(c, 1)

FirstErr(c) == IF FirstFail(c) = 0 THEN NoErr ELSE c[FirstFail(c)].err

\* C1: a setter called while the deferred error is non-nil performs no write
\* and no allow-list read, leaves the store as it was and leaves the deferred
\* error equal to what it was before the call.
C1_StickyShortCircuit ==
    [][(call'.op \in SetterOps /\ m.err # NoErr)
          => (io' = << >> /\ store' = store /\ m'.err = m.err)]_vars

\* C1 witness: SetTimeSetpoint was called after two calls, the first of which
\* had stored an error, and did no I/O.
C1_Witness ==
    /\ Len(chain) = 3
    /\ chain[1].err # NoErr
    /\ m.err = chain[1].err
    /\ call.op = "SetTimeSetpoint"
    /\ io = << >>

\* C2: Err returns the deferred error and leaves the slot nil, so an Err that
\* follows an Err returns nil; Err performs no I/O, leaves the store and the
\* handle's id as they were.
C2_DrainOnce ==
    [][call'.op = "Err"
          => /\ ret'.err = m.err
             /\ m'.err = NoErr
             /\ (call.op = "Err" => ret'.err = NoErr)
             /\ store' = store
             /\ io' = << >>
             /\ m'.id = m.id /\ m'.nil = m.nil]_vars

\* C2 witness: Err has just returned a non-nil error and the slot is nil.
C2_Witness == call.op = "Err" /\ ret.err # NoErr /\ m.err = NoErr

\* C3: in a chain of setter calls that starts with a nil deferred error, the
\* calls whose write reaches the store are exactly those before the first call
\* that stored an error, each setter step changes the store by its own
\* successful write only, and the Err that ends the chain returns the error of
\* that first failing call, or nil when no call failed.
C3_ChainOutcome ==
    [][LET k == FirstFail(chain') IN
       /\ \A i \in 1..Len(chain') : Wrote(chain'[i].io) <=> (k = 0 \/ i < k)
       /\ m'.err = (IF k = 0 THEN NoErr ELSE chain'[k].err)
       /\ (call'.op \in SetterOps => store' = AfterWrites(store, io', 1))
       /\ (call'.op = "Err" => ret'.err = FirstErr(chain))]_vars

\* C3 witness: a chain of three calls: the first wrote, the second failed, the
\* third was skipped, and the deferred error is the second call's.
C3_Witness ==
    /\ Len(chain) = 3
    /\ Wrote(chain[1].io)
    /\ chain[2].err # NoErr
    /\ chain[3].io = << >>
    /\ m.err = chain[2].err

----------------------------------------------------------------------------
(* The range-checked setters on a wider set of arguments. *)

DutyRange == {-1000, -101, -100, -1, 0, 7, 100, 101, 1000}
RampRange == {-1, 0, 1, 10000, Millisecond, 1500 * Millisecond}

NextRange ==
    \/ \E sp \in DutyRange : SetDutyCycleSetpoint(sp)
    \/ \E sp \in RampRange : SetRampUpSetpoint(sp)
    \/ \E sp \in RampRange : SetRampDownSetpoint(sp)
    \/ Err

SpecRange == Init /\ [][NextRange]_vars

\* The decimal text of the duty cycle setpoints drawn.
DutyText(sp) ==
    CASE sp = -1000 -> "-1000" [] sp = -101 -> "-101" [] sp = -100 -> "-100"
      [] sp = -1 -> "-1" [] sp = 0 -> "0" [] sp = 7 -> "7" [] sp = 100 -> "100"
      [] sp = 101 -> "101" [] sp = 1000 -> "1000"

\* The call wrote text to attr, or tried to and the write failed; it did no
\* other I/O.
WroteOnly(attr, text) ==
    /\ Len(io') = 1
    /\ io'[1].op = "write" /\ io'[1].attr = attr /\ io'[1].data = <<text>>
    /\ IF io'[1].ok
       THEN store' = [store EXCEPT ![attr] = <<text>>] /\ m'.err = NoErr
       ELSE store' = store /\ m'.err = IOError("write", attr)

\* The call stored a validation error and touched nothing.
Rejected ==
    /\ io' = << >>
    /\ store' = store
    /\ m'.err.kind = "invalid"

\* C4: with a nil deferred error SetDutyCycleSetpoint(sp) writes the decimal
\* text of sp to duty_cycle_sp if and only if -100 <= sp <= 100, and otherwise
\* stores a validation error and performs no write.
C4_DutyCycleRange ==
    [][(call'.op = "SetDutyCycleSetpoint" /\ m.err = NoErr)
          => IF -100 <= call'.num /\ call'.num <= 100
             THEN WroteOnly(dutyCycleSetpoint, DutyText(call'.num))
             ELSE Rejected /\ m'.err.num = call'.num]_vars

\* C4 witness: the boundary value 100 was written and is in the store.
C4_Witness ==
    /\ call.op = "SetDutyCycleSetpoint" /\ call.num = 100
    /\ Len(io) = 1 /\ io[1].ok
    /\ store[dutyCycleSetpoint] = <<"100">>

\* The duration d lies in [0, 10000] milliseconds.
InRampInterval(d) ==
    /\ d >= 0
    /\ \/ d \div Millisecond < 10000
       \/ d \div Millisecond = 10000 /\ d % Millisecond = 0

\* The millisecond counts of the ramp times drawn.
RampText(d) ==
    CASE d = Millisecond -> "1" [] d = 1500 * Millisecond -> "1500" [] OTHER -> "0"

\* C5: with a nil deferred error SetRampUpSetpoint(d) and SetRampDownSetpoint(d)
\* accept exactly the durations d of [0, 10000] milliseconds and write the
\* millisecond count of d; every other duration is rejected without a write.
C5_RampRange ==
    [][(call'.op \in {"SetRampUpSetpoint", "SetRampDownSetpoint"} /\ m.err = NoErr)
          => IF InRampInterval(call'.num)
             THEN WroteOnly(IF call'.op = "SetRampUpSetpoint" THEN rampUpSetpoint
                            ELSE rampDownSetpoint, RampText(call'.num))
             ELSE Rejected]_vars

----------------------------------------------------------------------------
(* The allow-list setters, with the device changing its allow-lists. *)

CommandTexts == {<<"run-forever", " ", "stop">>, <<"stop">>,
                 <<"run-forever", " ", "run-direct", " ", "stop">>}
StopActionTexts == {<<"coast", " ", "brake">>, <<"coast", " ", "brake", " ", "hold">>}

CommRange == {"run-forever", "run-direct", "stop", "bogus"}
StopRange == {"coast", "hold", "bogus"}

NextAllow ==
    \/ \E c \in CommRange : Command(c)
    \/ \E a \in StopRange : SetStopAction(a)
    \/ \E t \in CommandTexts : DeviceChange(commands, t)
    \/ \E t \in StopActionTexts : DeviceChange(stopActions, t)
    \/ Err

SpecAllow == Init /\ [][NextAllow]_vars

\* The entries of the allow-list texts drawn, in the order of the text.
AllowList(text) ==
    CASE text = <<"run-forever", " ", "stop">> -> <<"run-forever", "stop">>
      [] text = <<"stop">> -> <<"stop">>
      [] text = <<"run-forever", " ", "run-direct", " ", "stop">>
            -> <<"run-forever", "run-direct", "stop">>
      [] text = <<"coast", " ", "brake">> -> <<"coast", "brake">>
      [] text = <<"coast", " ", "brake", " ", "hold">> -> <<"coast", "brake", "hold">>

\* The call read the allow-list listAttr and then wrote val to attr, or tried to.
ReadThenWrote(listAttr, attr, val) ==
    /\ Len(io') = 2
    /\ io'[1] = Read(listAttr, TRUE)
    /\ io'[2].op = "write" /\ io'[2].attr = attr /\ io'[2].data = <<val>>
    /\ IF io'[2].ok
       THEN store' = [store EXCEPT ![attr] = <<val>>] /\ m'.err = NoErr
       ELSE store' = store /\ m'.err = IOError("write", attr)

\* The call read the allow-list listAttr, stored the "not available" error
\* that names val, the device and the allow-list, and wrote nothing.
NotAvailable(listAttr, what, val) ==
    /\ io' = <<Read(listAttr, TRUE)>>
    /\ store' = store
    /\ m'.err = Errorf("not available", what, val, 0, "motor0", AllowList(store[listAttr]))

\* C6: with a nil deferred error and the allow-list read, Command(name) (and
\* SetStopAction(action)) writes the value only if it is an entry of the
\* allow-list as the companion attribute holds it during the call; otherwise it
\* stores the "not available" error naming the value, the device and the whole
\* allow-list and attempts no write.
C6_AllowListGating ==
    [][/\ (call'.op = "Command" /\ m.err = NoErr /\ io' # << >> /\ io'[1].ok)
             => IF \E i \in 1..Len(AllowList(store[commands])) :
                       AllowList(store[commands])[i] = call'.str
                THEN ReadThenWrote(commands, command, call'.str)
                ELSE NotAvailable(commands, "command", call'.str)
       /\ (call'.op = "SetStopAction" /\ m.err = NoErr /\ io' # << >> /\ io'[1].ok)
             => IF \E i \in 1..Len(AllowList(store[stopActions])) :
                       AllowList(store[stopActions])[i] = call'.str
                THEN ReadThenWrote(stopActions, stopAction, call'.str)
                ELSE NotAvailable(stopActions, "stop action", call'.str)]_vars

\* C6 witness: Command("bogus") was rejected against the allow-list
\* {run-forever, stop}, and the error names bogus and both entries.
C6_Witness ==
    /\ call.op = "Command" /\ call.str = "bogus"
    /\ io = <<Read(commands, TRUE)>>
    /\ m.err.kind = "not available" /\ m.err.str = "bogus"
    /\ m.err.avail = <<"run-forever", "stop">>

----------------------------------------------------------------------------
(* Discovery: any set of motors the enumerator can yield, any request. *)

Ids == 0..(MaxDevices - 1)

\* The scans of at most MaxDevices motors: distinct ids, distinct ports.
Scans ==
    UNION {{d \in [1..n -> [id : Ids, port : Ports, driver : Drivers]] :
                \A i, j \in 1..n : i # j => d[i].id # d[j].id /\ d[i].port # d[j].port} :
           n \in 0..MaxDevices}

InitDiscovery ==
    /\ devices \in Scans
    /\ m = NilMotor
    /\ store = InitStore
    /\ call = Call("", "", 0)
    /\ ret = Ret(NilMotor, 0, NoErr)
    /\ io = << >>
    /\ chain = << >>
    /\ callers = NoCalls

NextDiscovery ==
    \E port \in Ports \cup {""}, driver \in Drivers \cup {"baz"} : Discover(port, driver)

SpecDiscovery == InitDiscovery /\ [][NextDiscovery]_vars

\* The scanned motors at the port, and those with the driver.
AtPort(port) == {i \in 1..Len(devices) : devices[i].port = port}
WithDriver(driver) == {i \in 1..Len(devices) : devices[i].driver = driver}

\* C7: when a motor is at the requested non-empty port, DCMotorFor returns a
\* non-nil handle with that motor's id and a nil deferred error, together with
\* a DriverMismatch error when the motor's driver differs from the requested
\* one and with a nil error when it matches.
C7_DriverMismatchReturnsBoth ==
    (call.op = "DCMotorFor" /\ call.str # "" /\ AtPort(call.str) # {})
        => \A i \in AtPort(call.str) :
              /\ ~ret.h.nil /\ ret.h.id = devices[i].id /\ ret.h.err = NoErr
              /\ m = ret.h
              /\ IF devices[i].driver # call.aux
                 THEN ret.err.kind = "driver mismatch"
                 ELSE ret.err = NoErr

\* C7 witness: a motor with driver foo is at outA, and DCMotorFor("outA", "bar")
\* returned a handle with its id and a DriverMismatch error.
C7_Witness ==
    /\ call.op = "DCMotorFor" /\ call.str = "outA" /\ call.aux = "bar"
    /\ \E i \in AtPort("outA") : devices[i].driver = "foo" /\ ret.h.id = devices[i].id
    /\ ~ret.h.nil
    /\ ret.err.kind = "driver mismatch"

\* C8: when no motor is at the requested non-empty port, DCMotorFor returns a
\* nil handle and a NotFound error; and whatever DCMotorFor returns, a non-nil
\* handle has an id other than -1 and a nil handle comes with a non-nil error.
C8_NotFoundNoHandle ==
    call.op = "DCMotorFor"
        => /\ (call.str # "" /\ AtPort(call.str) = {})
                 => (ret.h.nil /\ ret.err.kind = "not found")
           /\ ~ret.h.nil => ret.h.id # -1
           /\ ret.h.nil => ret.err # NoErr

\* C8 witness: motors are present, none of them at outA, and DCMotorFor for
\* outA returned nil and NotFound.
C8_Witness ==
    /\ call.op = "DCMotorFor" /\ call.str = "outA"
    /\ Len(devices) > 0 /\ AtPort("outA") = {}
    /\ ret.h.nil /\ ret.err.kind = "not found"

\* C9: with an empty port DCMotorFor returns, with a nil error, a handle for
\* the first motor in scan order whose driver is the requested one, and a nil
\* handle with NotFound when no motor has that driver.
C9_EmptyPortFirstMatch ==
    (call.op = "DCMotorFor" /\ call.str = "")
        => IF WithDriver(call.aux) = {}
           THEN ret.h.nil /\ ret.err.kind = "not found"
           ELSE /\ ~ret.h.nil /\ ret.err = NoErr
                /\ \E i \in WithDriver(call.aux) :
                      /\ \A j \in WithDriver(call.aux) : i <= j
                      /\ ret.h.id = devices[i].id

\* C9 witness: two motors have the driver bar, a motor with another driver is
\* scanned before them, and the handle is for the first of the two.
C9_Witness ==
    /\ call.op = "DCMotorFor" /\ call.str = "" /\ call.aux = "bar"
    /\ Len(devices) = 3
    /\ devices[1].driver = "foo" /\ devices[2].driver = "bar" /\ devices[3].driver = "bar"
    /\ ~ret.h.nil /\ ret.h.id = devices[2].id

----------------------------------------------------------------------------
(* State, with the device changing its state attribute. *)

StateTexts == {<<"running">>, <<"running", " ", "ramping">>, <<"stalled">>,
               <<"running", " ", "stalled">>, <<"running", " ", "flurb">>,
               <<"ramping", " ", "running", " ", "ramping">>,
               <<"flurb", " ", "running", " ", "blarg">>}

NextState ==
    \/ State
    \/ \E t \in StateTexts : DeviceChange(state, t)
    \/ \E sp \in DutyInputs : SetDutyCycleSetpoint(sp)
    \/ Err

SpecState == Init /\ [][NextState]_vars

\* The tokens of the state texts drawn, and the first of them that the token
\* table does not hold ("" when it holds them all).
Tokens(text) == {text[i] : i \in {j \in 1..Len(text) : text[j] # " "}}
Unknown(text) ==
    CASE text = <<"running", " ", "flurb">> -> "flurb"
      [] text = <<"flurb", " ", "running", " ", "blarg">> -> "flurb"
      [] OTHER -> ""

\* The flags of the token table.
Bit(tok) == CASE tok = "running" -> 1 [] tok = "ramping" -> 2 [] tok = "stalled" -> 4

RECURSIVE SumBits(_)
\* The sum of the bits of a set of distinct tokens: their bitwise or.
SumBits(toks) ==
    IF toks = {} THEN 0
    ELSE LET t == CHOOSE x \in toks : TRUE IN Bit(t) + SumBits(toks \ {t})

\* C10: with a nil deferred error and the read of state successful, State
\* returns the bitwise or of the bits of the tokens of the raw text when the
\* table holds every token ("running ramping" gives 3), and returns 0 with a
\* parse error naming the first token the table does not hold otherwise
\* ("running flurb" fails naming "flurb").
C10_StateBitmask ==
    [][(call'.op = "State" /\ m.err = NoErr /\ io' = <<Read(state, TRUE)>>)
          => /\ IF Unknown(store[state]) = ""
                THEN ret'.val = SumBits(Tokens(store[state])) /\ ret'.err = NoErr
                ELSE /\ ret'.val = 0
                     /\ ret'.err.kind = "unrecognized"
                     /\ ret'.err.str = Unknown(store[state])
             /\ (store[state] = <<"running", " ", "ramping">> => ret'.val = 3)
             /\ m' = m /\ store' = store]_vars

\* C10 witness: State has read "ramping running ramping" and returned 3.
C10_Witness ==
    /\ call.op = "State" /\ io = <<Read(state, TRUE)>>
    /\ store[state] = <<"ramping", " ", "running", " ", "ramping">>
    /\ ret.val = 3 /\ ret.err = NoErr

----------------------------------------------------------------------------
(* The typed reads of the getters. *)

RECURSIVE Raw(_)
\* The Go string of a raw text: its segments, concatenated.
Raw(text) == IF text = << >> THEN "" ELSE Head(text) \o Raw(Tail(text))

DigitVal(c) ==
    CASE c = "0" -> 0 [] c = "1" -> 1 [] c = "2" -> 2 [] c = "3" -> 3 [] c = "4" -> 4
      [] c = "5" -> 5 [] c = "6" -> 6 [] c = "7" -> 7 [] c = "8" -> 8 [] c = "9" -> 9
      [] OTHER -> -1

RECURSIVE AtoiFrom(_, _, _)
\* The digits of s from position i on, appended to the number acc.
AtoiFrom(s, i, acc) ==
    IF i > Len(s) THEN [val |-> acc, ok |-> TRUE]
    ELSE IF DigitVal(SubSeq(s, i, i)) < 0 THEN [val |-> 0, ok |-> FALSE]
    ELSE AtoiFrom(s, i + 1, 10 * acc + DigitVal(SubSeq(s, i, i)))

\* strconv.Atoi: an optional sign and at least one decimal digit.
Atoi(s) ==
    LET signed == Len(s) > 0 /\ SubSeq(s, 1, 1) \in {"-", "+"}
        first == IF signed THEN 2 ELSE 1
        r == AtoiFrom(s, first, 0)
    IN  IF first > Len(s) THEN [val |-> 0, ok |-> FALSE]
        ELSE IF signed /\ SubSeq(s, 1, 1) = "-" THEN [val |-> -r.val, ok |-> r.ok]
        ELSE r

ParseError(what, text) == Errorf("parse", what, Raw(text), 0, "", << >>)

intFrom(r) ==
    IF r.err # NoErr THEN [val |-> -1, err |-> r.err, io |-> r.io]
    ELSE IF ~Atoi(Raw(r.data)).ok
         THEN [val |-> -1, err |-> ParseError("int", r.data), io |-> r.io]
         ELSE [val |-> Atoi(Raw(r.data)).val, err |-> NoErr, io |-> r.io]

durationFrom(r) ==
    IF r.err # NoErr THEN [val |-> -1, err |-> r.err, io |-> r.io]
    ELSE IF ~Atoi(Raw(r.data)).ok
         THEN [val |-> -1, err |-> ParseError("duration", r.data), io |-> r.io]
         ELSE [val |-> Atoi(Raw(r.data)).val * Millisecond, err |-> NoErr, io |-> r.io]

stringFrom(r) ==
    IF r.err # NoErr THEN [val |-> "", err |-> r.err, io |-> r.io]
    ELSE [val |-> Raw(r.data), err |-> NoErr, io |-> r.io]

RECURSIVE LinesFrom(_, _, _, _)
\* strings.Split(data, "\n"), for a text whose segments are lines and "\n".
LinesFrom(data, i, cur, acc) ==
    IF i > Len(data) THEN Append(acc, cur)
    ELSE IF data[i] = "\n" THEN LinesFrom(data, i + 1, "", Append(acc, cur))
    ELSE LinesFrom(data, i + 1, cur \o data[i], acc)

\* The positions of "=" in the line l.
Equals(l) == {i \in 1..Len(l) : SubSeq(l, i, i) = "="}

RECURSIVE UeventLoop(_, _, _)
\* The loop over the lines: kv holds the pairs of the lines before line i.
UeventLoop(lines, i, kv) ==
    IF i > Len(lines) THEN [val |-> kv, err |-> NoErr]
    ELSE IF Cardinality(Equals(lines[i])) # 1
         THEN [val |-> {}, err |-> Errorf("parse", "uevent", lines[i], 0, "", << >>)]
         ELSE LET e == CHOOSE j \in Equals(lines[i]) : TRUE
                  k == SubSeq(lines[i], 1, e - 1)
                  v == SubSeq(lines[i], e + 1, Len(lines[i]))
              IN  UeventLoop(lines, i + 1, {p \in kv : p[1] # k} \cup {<<k, v>>})

ueventFrom(r) ==
    IF r.err # NoErr THEN [val |-> {}, err |-> r.err, io |-> r.io]
    ELSE LET u == UeventLoop(LinesFrom(r.data, 1, "", << >>), 1, {}) IN
         [val |-> u.val, err |-> u.err, io |-> r.io]

\* What a getter leaves behind: the handle as it was, its results, its I/O.
Got(h, r) == [h |-> h, val |-> r.val, err |-> r.err, io |-> <<r.io>>]

CommandsOf(h, st, rok) ==
    LET r == Commands(st, rok) IN [h |-> h, val |-> r.list, err |-> r.err, io |-> <<r.io>>]

\* DutyCycle keeping its error in the deferred slot as well.
DutyCycleStores(h, st, rok) ==
    LET r == intFrom(attributeOf(st, dutyCycle, rok)) IN
    Got(IF r.err # NoErr THEN WithErr(h, r.err) ELSE h, r)

DutyCycleOf(h, st, rok) == Got(h, intFrom(attributeOf(st, dutyCycle, rok)))

DutyCycleSetpointOf(h, st, rok) == Got(h, intFrom(attributeOf(st, dutyCycleSetpoint, rok)))

PolarityOf(h, st, rok) == Got(h, stringFrom(attributeOf(st, polarity, rok)))

RampUpSetpointOf(h, st, rok) == Got(h, durationFrom(attributeOf(st, rampUpSetpoint, rok)))

RampDownSetpointOf(h, st, rok) == Got(h, durationFrom(attributeOf(st, rampDownSetpoint, rok)))

StopActionOf(h, st, rok) == Got(h, stringFrom(attributeOf(st, stopAction, rok)))

StopActionsOf(h, st, rok) ==
    LET r == StopActions(st, rok) IN [h |-> h, val |-> r.list, err |-> r.err, io |-> <<r.io>>]

TimeSetpointOf(h, st, rok) == Got(h, durationFrom(attributeOf(st, timeSetpoint, rok)))

UeventOf(h, st, rok) == Got(h, ueventFrom(attributeOf(st, uevent, rok)))

\* A call of a getter with outcome r.
Getter(op, r) ==
    /\ ~m.nil
    /\ m' = r.h
    /\ ret' = Ret(r.h, r.val, r.err)
    /\ io' = r.io
    /\ call' = Call(op, "", 0)
    /\ UNCHANGED <<store, devices, chain, callers>>

CommandsGetter ==
    \E r \in {CommandsOf(m, store, rok) : rok \in BOOLEAN} : Getter("Commands", r)

DutyCycle ==
    \E r \in {DutyCycleOf(m, store, rok) : rok \in BOOLEAN} : Getter("DutyCycle", r)

DutyCycleSetpoint ==
    \E r \in {DutyCycleSetpointOf(m, store, rok) : rok \in BOOLEAN} :
        Getter("DutyCycleSetpoint", r)

Polarity ==
    \E r \in {PolarityOf(m, store, rok) : rok \in BOOLEAN} : Getter("Polarity", r)

RampUpSetpoint ==
    \E r \in {RampUpSetpointOf(m, store, rok) : rok \in BOOLEAN} :
        Getter("RampUpSetpoint", r)

RampDownSetpoint ==
    \E r \in {RampDownSetpointOf(m, store, rok) : rok \in BOOLEAN} :
        Getter("RampDownSetpoint", r)

StopAction ==
    \E r \in {StopActionOf(m, store, rok) : rok \in BOOLEAN} : Getter("StopAction", r)

StopActionsGetter ==
    \E r \in {StopActionsOf(m, store, rok) : rok \in BOOLEAN} : Getter("StopActions", r)

TimeSetpoint ==
    \E r \in {TimeSetpointOf(m, store, rok) : rok \in BOOLEAN} : Getter("TimeSetpoint", r)

Uevent ==
    \E r \in {UeventOf(m, store, rok) : rok \in BOOLEAN} : Getter("Uevent", r)

----------------------------------------------------------------------------
(* The time setpoint written and read back. *)

TimeRange == {0, 999999, Millisecond, 1500 * Millisecond + 700000,
              -(1500 * Millisecond + 700000)}
TimeTexts == {<<"0">>, <<"250">>, <<"25o">>}

NextTime ==
    \/ \E sp \in TimeRange : SetTimeSetpoint(sp)
    \/ TimeSetpoint
    \/ \E t \in TimeTexts : DeviceChange(timeSetpoint, t)
    \/ Err

SpecTime == Init /\ [][NextTime]_vars

\* The whole milliseconds of the durations drawn, truncated toward zero, and
\* their decimal text.
TimeMs(d) ==
    CASE d = 0 -> 0 [] d = 999999 -> 0 [] d = Millisecond -> 1
      [] d = 1500 * Millisecond + 700000 -> 1500
      [] d = -(1500 * Millisecond + 700000) -> -1500
TimeText(d) ==
    CASE d = 0 -> "0" [] d = 999999 -> "0" [] d = Millisecond -> "1"
      [] d = 1500 * Millisecond + 700000 -> "1500"
      [] d = -(1500 * Millisecond + 700000) -> "-1500"

\* C11: with a nil deferred error SetTimeSetpoint(d) writes the decimal text of
\* d truncated to whole milliseconds (1500.7 ms is written as "1500"), and a
\* TimeSetpoint that follows a successful write and reads the attribute returns
\* exactly that number of milliseconds.
C11_MillisecondRoundTrip ==
    [][/\ (call'.op = "SetTimeSetpoint" /\ m.err = NoErr)
             => WroteOnly(timeSetpoint, TimeText(call'.num))
       /\ (/\ call.op = "SetTimeSetpoint" /\ Wrote(io)
           /\ call'.op = "TimeSetpoint" /\ io' = <<Read(timeSetpoint, TRUE)>>)
             => /\ ret'.val = TimeMs(call.num) * Millisecond
                /\ ret'.err = NoErr]_vars

\* C11 witness: 1500.7 ms was written as "1500" and TimeSetpoint, called next,
\* returned 1500 ms.
C11_Witness ==
    /\ call.op = "TimeSetpoint" /\ io = <<Read(timeSetpoint, TRUE)>>
    /\ Len(chain) > 0
    /\ chain[Len(chain)].io = <<Write(timeSetpoint, <<"1500">>, TRUE)>>
    /\ store[timeSetpoint] = <<"1500">>
    /\ ret.val = 1500 * Millisecond /\ ret.err = NoErr

----------------------------------------------------------------------------
\* C12: State called with a non-nil deferred error returns 0 and that error,
\* clears the deferred error and reads nothing; the State called right after
\* it reads the state attribute.
C12_StateDrains ==
    [][/\ (call'.op = "State" /\ m.err # NoErr)
             => /\ ret'.val = 0 /\ ret'.err = m.err
                /\ m'.err = NoErr /\ m'.id = m.id
                /\ io' = << >>
                /\ store' = store
       /\ (call.op = "State" /\ io = << >> /\ call'.op = "State")
             => /\ Len(io') = 1
                /\ io'[1].op = "read" /\ io'[1].attr = state
                /\ (io'[1].ok => ret'.err.kind \in {"nil", "unrecognized"})]_vars

\* C12 witness: State has returned the validation error a setter had stored,
\* without a read, and the deferred error is nil.
C12_Witness ==
    /\ call.op = "State" /\ io = << >>
    /\ ret.val = 0 /\ ret.err.kind = "invalid"
    /\ m.err = NoErr

----------------------------------------------------------------------------
(* The getters, with and without a deferred error pending. *)

DutyCycleTexts == {<<"42">>, <<"4x">>}
UeventTexts == {<<"DRIVER=bar">>, <<"DRIVER=foo", "\n", "PORT">>}

NextGetters ==
    \/ CommandsGetter
    \/ DutyCycle
    \/ DutyCycleSetpoint
    \/ Polarity
    \/ RampUpSetpoint
    \/ RampDownSetpoint
    \/ StopAction
    \/ StopActionsGetter
    \/ TimeSetpoint
    \/ Uevent
    \/ \E sp \in DutyInputs : SetDutyCycleSetpoint(sp)
    \/ \E t \in DutyCycleTexts : DeviceChange(dutyCycle, t)
    \/ \E t \in UeventTexts : DeviceChange(uevent, t)
    \/ Err

SpecGetters == Init /\ [][NextGetters]_vars

GetterOps == {"Commands", "DutyCycle", "DutyCycleSetpoint", "Polarity", "RampUpSetpoint",
              "RampDownSetpoint", "StopAction", "StopActions", "TimeSetpoint", "Uevent"}

\* The attribute each getter reads.
GetterAttr(op) ==
    CASE op = "Commands" -> commands
      [] op = "DutyCycle" -> dutyCycle
      [] op = "DutyCycleSetpoint" -> dutyCycleSetpoint
      [] op = "Polarity" -> polarity
      [] op = "RampUpSetpoint" -> rampUpSetpoint
      [] op = "RampDownSetpoint" -> rampDownSetpoint
      [] op = "StopAction" -> stopAction
      [] op = "StopActions" -> stopActions
      [] op = "TimeSetpoint" -> timeSetpoint
      [] op = "Uevent" -> uevent

\* The texts drawn that a getter cannot parse.
Unparsable(op, text) ==
    \/ op = "DutyCycle" /\ text = <<"4x">>
    \/ op = "Uevent" /\ text = <<"DRIVER=foo", "\n", "PORT">>

\* The number a numeric text drawn stands for.
Number(text) ==
    CASE text = <<"0">> -> 0 [] text = <<"42">> -> 42 [] text = <<"50">> -> 50

\* What each getter returns for the texts drawn that it can parse.
Value(op, text) ==
    CASE op \in {"Commands", "StopActions"} -> AllowList(text)
      [] op \in {"DutyCycle", "DutyCycleSetpoint"} -> Number(text)
      [] op \in {"RampUpSetpoint", "RampDownSetpoint", "TimeSetpoint"}
            -> Number(text) * Millisecond
      [] op \in {"Polarity", "StopAction"} -> text[1]
      [] op = "Uevent" ->
            IF text = <<"DRIVER=bar">> THEN {<<"DRIVER", "bar">>}
            ELSE {<<"DRIVER", "foo">>, <<"PORT", "outA">>}

\* C13: every getter other than State reads its attribute and returns its own
\* result whether or not a deferred error is pending, and leaves the handle,
\* its deferred error included, as it found it, also when its read or its
\* parse fails.
C13_GettersLeaveDeferred ==
    [][call'.op \in GetterOps
          => /\ m' = m /\ store' = store /\ chain' = chain
             /\ Len(io') = 1
             /\ io'[1].op = "read" /\ io'[1].attr = GetterAttr(call'.op)
             /\ IF ~io'[1].ok
                THEN ret'.err = IOError("read", GetterAttr(call'.op))
                ELSE IF Unparsable(call'.op, store[GetterAttr(call'.op)])
                     THEN ret'.err.kind = "parse"
                     ELSE /\ ret'.err = NoErr
                          /\ ret'.val = Value(call'.op, store[GetterAttr(call'.op)])]_vars

\* C13 witness: with a validation error pending DutyCycle has read "4x" and
\* returned a parse error, and the pending error is still in the slot.
C13_Witness ==
    /\ call.op = "DutyCycle" /\ io = <<Read(dutyCycle, TRUE)>>
    /\ store[dutyCycle] = <<"4x">>
    /\ ret.err.kind = "parse"
    /\ m.err.kind = "invalid"

----------------------------------------------------------------------------
\* C14: with a nil deferred error, when the read of the allow-list fails in
\* Command or SetStopAction, the setter stores that read error and writes
\* nothing, whatever the requested value.
C14_AllowListReadFailure ==
    [][/\ (call'.op = "Command" /\ m.err = NoErr /\ io' # << >> /\ ~io'[1].ok)
             => /\ io' = <<Read(commands, FALSE)>>
                /\ m'.err = IOError("read", commands)
                /\ store' = store
       /\ (call'.op = "SetStopAction" /\ m.err = NoErr /\ io' # << >> /\ ~io'[1].ok)
             => /\ io' = <<Read(stopActions, FALSE)>>
                /\ m'.err = IOError("read", stopActions)
                /\ store' = store
       /\ (call'.op \in {"Command", "SetStopAction"} /\ m.err = NoErr)
             => io' # << >> /\ io'[1].op = "read"]_vars

\* C14 witness: SetStopAction("coast"), a value of the allow-list, found the
\* read of stop_actions failing and stored the read error.
C14_Witness ==
    /\ call.op = "SetStopAction" /\ call.str = "coast"
    /\ store[stopActions] = <<"coast", " ", "brake">>
    /\ io = <<Read(stopActions, FALSE)>>
    /\ m.err = IOError("read", stopActions)

----------------------------------------------------------------------------
(* Calls interleaved with changes of the store made by the device. *)

FreshStateTexts == {<<"running">>, <<"running", " ", "ramping">>, <<"stalled">>}

NextFresh ==
    \/ \E c \in CommRange : Command(c)
    \/ CommandsGetter
    \/ State
    \/ \E t \in CommandTexts : DeviceChange(commands, t)
    \/ \E t \in FreshStateTexts : DeviceChange(state, t)
    \/ Err

SpecFresh == Init /\ [][NextFresh]_vars

\* val is an entry of the allow-list the commands attribute holds now.
Offered(val) ==
    \E i \in 1..Len(AllowList(store[commands])) : AllowList(store[commands])[i] = val

\* C15: the handle caches nothing: Commands and State return what the store
\* holds at the time of the call, Command checks the value against the
\* allow-list the store holds at the time of the call, and a command that was
\* rejected, its error since drained, is written when the allow-list the
\* store holds now offers it.
C15_NoCaching ==
    [][/\ (call'.op = "Commands" /\ io' = <<Read(commands, TRUE)>>)
             => ret'.val = AllowList(store[commands]) /\ ret'.err = NoErr
       /\ (call'.op = "State" /\ m.err = NoErr /\ io' = <<Read(state, TRUE)>>)
             => ret'.val = SumBits(Tokens(store[state])) /\ ret'.err = NoErr
       /\ (call'.op = "Command" /\ m.err = NoErr /\ io' # << >> /\ io'[1].ok)
             => IF Offered(call'.str)
                THEN ReadThenWrote(commands, command, call'.str)
                ELSE NotAvailable(commands, "command", call'.str)
       /\ (/\ call'.op = "Command" /\ m.err = NoErr /\ io' # << >> /\ io'[1].ok
           /\ ret.err.kind = "not available" /\ ret.err.str = call'.str
           /\ Offered(call'.str))
             => ReadThenWrote(commands, command, call'.str)]_vars

\* C15 witness: Command("run-direct") was rejected against the allow-list
\* {run-forever, stop} and its error is still pending; the device has since
\* added run-direct, and Commands has returned the list with run-direct in it.
C15_Witness ==
    /\ m.err.kind = "not available" /\ m.err.str = "run-direct"
    /\ m.err.avail = <<"run-forever", "stop">>
    /\ call.op = "Commands"
    /\ ret.val = <<"run-forever", "run-direct", "stop">> /\ ret.err = NoErr

----------------------------------------------------------------------------
(* Two goroutines sharing the handle without a lock: each statement of
   SetDutyCycleSetpoint and of Err that touches m.err or the store is a step
   of its own, and the steps of the two callers interleave. *)

Other(t) == Callers \ {t}
InCall(t) == callers.at[t].pc # "idle"
InSetter(t) == callers.at[t].pc \in {"passed", "write"}

\* The bookkeeping of caller t entering a call.
Entered(t) ==
    [callers EXCEPT !.overlap = @ \/ \E u \in Other(t) : InCall(u),
                    !.mixed = @ \/ \E u \in Other(t) : InCall(u) \/ u \in callers.open]

\* "if m.err != nil { return m }": with an error pending the call is over,
\* otherwise the caller goes on to the range check and the write.
SetDutyCycleSetpointCheck(t, sp) ==
    /\ ~m.nil
    /\ ~InCall(t)
    /\ Len(chain) + Cardinality({u \in Callers : InSetter(u)}) < MaxChain
    /\ IF m.err # NoErr
       THEN \E r \in {SetDutyCycleSetpointOf(m, store, sp, wok) : wok \in BOOLEAN} :
               /\ m' = r.h
               /\ store' = r.store
               /\ io' = r.io
               /\ call' = [Call("SetDutyCycleSetpoint", "", sp) EXCEPT !.aux = t]
               /\ ret' = Ret(r.h, 0, NoErr)
               /\ chain' = Append(chain, [io |-> r.io, err |-> r.h.err])
               /\ callers' = [Entered(t) EXCEPT
                                 !.open = @ \cup {t},
                                 !.owner = IF r.h.err = m.err THEN @
                                           ELSE IF r.h.err = NoErr THEN "" ELSE t,
                                 !.lost = @ \/ (r.io # << >> /\ r.h.err # m.err)]
       ELSE /\ callers' = [Entered(t) EXCEPT
                              !.open = @ \cup {t},
                              !.at[t] = [Idle EXCEPT !.pc = "passed", !.num = sp]]
            /\ UNCHANGED <<m, store, io, call, ret, chain>>
    /\ UNCHANGED devices

\* The range check and the call of setAttributeOf of a caller past the nil
\* check; the result is not yet assigned to m.err.
SetDutyCycleSetpointWrite(t) ==
    /\ callers.at[t].pc = "passed"
    /\ \E r \in {SetDutyCycleSetpointOf(WithErr(m, NoErr), store, callers.at[t].num, wok) :
                     wok \in BOOLEAN} :
          /\ store' = r.store
          /\ callers' = [callers EXCEPT
                            !.at[t] = [@ EXCEPT !.pc = "write", !.err = r.h.err, !.io = r.io,
                                                !.late = m.err # NoErr]]
    /\ UNCHANGED <<m, devices, io, call, ret, chain>>

\* "m.err = ..." and the return of the setter.
SetDutyCycleSetpointAssign(t) ==
    LET my == callers.at[t] IN
    /\ my.pc = "write"
    /\ m' = WithErr(m, my.err)
    /\ io' = my.io
    /\ call' = [Call("SetDutyCycleSetpoint", "", my.num) EXCEPT !.aux = t]
    /\ ret' = Ret(m', 0, NoErr)
    /\ chain' = Append(chain, [io |-> my.io, err |-> my.err])
    /\ callers' = [callers EXCEPT
                      !.at[t] = Idle,
                      !.owner = IF my.err = NoErr THEN "" ELSE t,
                      !.lost = @ \/ (my.late /\ my.io # << >> /\ m.err # NoErr)]
    /\ UNCHANGED <<store, devices>>

\* "err := m.err" of Err.
ErrLoad(t) ==
    /\ ~m.nil
    /\ ~InCall(t)
    /\ callers' = [Entered(t) EXCEPT
                      !.at[t] = [Idle EXCEPT !.pc = "loaded", !.err = ErrOf(m).err,
                                             !.from = callers.owner]]
    /\ UNCHANGED <<m, store, devices, io, call, ret, chain>>

\* "m.err = nil; return err" of Err.
ErrClear(t) ==
    LET my == callers.at[t] IN
    /\ my.pc = "loaded"
    /\ m' = ErrOf(m).h
    /\ ret' = Ret(m', 0, my.err)
    /\ io' = << >>
    /\ call' = [Call("Err", "", 0) EXCEPT !.aux = t]
    /\ chain' = << >>
    /\ callers' = [callers EXCEPT
                      !.at[t] = Idle,
                      !.open = @ \ {t},
                      !.owner = IF m'.err = NoErr THEN "" ELSE @,
                      !.stolen = @ \/ (my.err # NoErr /\ my.from # t)]
    /\ UNCHANGED <<store, devices>>

NextRace ==
    \/ \E t \in Callers, sp \in DutyInputs : SetDutyCycleSetpointCheck(t, sp)
    \/ \E t \in Callers : SetDutyCycleSetpointWrite(t)
    \/ \E t \in Callers : SetDutyCycleSetpointAssign(t)
    \/ \E t \in Callers : ErrLoad(t)
    \/ \E t \in Callers : ErrClear(t)

SpecRace == Init /\ [][NextRace]_vars

\* C16 as stated: the two callers reach a state where a setter wrote after a
\* failure and replaced the stored error, or where an Err returned the error
\* of the other caller's setter, only when calls have overlapped; with no
\* call beginning during another call neither state is reached.
C16_SerializedCallsSafe ==
    ~callers.overlap => ~callers.lost /\ ~callers.stolen

\* C16 as amended: a setter writes after a failure and replaces the stored
\* error only when calls have overlapped, and an Err returns the error of the
\* other caller's setter only when a call has begun between the other
\* caller's setters and its Err; calls that do not overlap exclude the first
\* but not the second.
C16_RaceNeedsInterleaving ==
    /\ callers.lost => callers.overlap
    /\ callers.stolen => callers.mixed

\* C16 witness: a setter that passed the nil check before the other caller's
\* setter failed has written 50 after that failure and assigned nil over the
\* stored error: the chain holds a failure, the store the late write, and the
\* slot is empty.
C16_Witness ==
    /\ callers.lost
    /\ call.op = "SetDutyCycleSetpoint" /\ call.num = 50
    /\ Len(chain) = 2
    /\ chain[1].err.kind = "invalid" /\ chain[2].io # << >>
    /\ store[dutyCycleSetpoint] = <<"50">>
    /\ m.err = NoErr

----------------------------------------------------------------------------
(* SetPolarity over the two polarities and texts near them. *)

PolarityRange == {"normal", "inversed", "", "Normal", "INVERSED", "reversed"}

NextPolarity ==
    \/ \E p \in PolarityRange : SetPolarity(p)
    \/ Polarity
    \/ Err

SpecPolarity == Init /\ [][NextPolarity]_vars

\* C17: with a nil deferred error SetPolarity(p) writes the text of p to the
\* polarity attribute when p is "normal" or "inversed" and only then; for any
\* other p, the empty and the differently-cased among them, it stores a
\* validation error naming p and writes nothing; so no write to polarity
\* carries, and the attribute never holds, a text other than the two.
C17_PolarityTwoValued ==
    [][/\ (call'.op = "SetPolarity" /\ m.err = NoErr)
             => IF call'.str = "normal" \/ call'.str = "inversed"
                THEN WroteOnly(polarity, call'.str)
                ELSE Rejected /\ m'.err.what = "polarity" /\ m'.err.str = call'.str
       /\ \A j \in 1..Len(io') :
             (io'[j].op = "write" /\ io'[j].attr = polarity)
                => io'[j].data \in {<<"normal">>, <<"inversed">>}
       /\ store'[polarity] \in {<<"normal">>, <<"inversed">>}]_vars

\* C17 witness: after "inversed" was written SetPolarity("Normal") was
\* rejected: the error names "Normal" and the attribute still holds inversed.
C17_Witness ==
    /\ call.op = "SetPolarity" /\ call.str = "Normal"
    /\ io = << >>
    /\ m.err.kind = "invalid" /\ m.err.str = "Normal"
    /\ store[polarity] = <<"inversed">>

----------------------------------------------------------------------------
(* Every operation on the handle, with re-discovery rebinding it. The values
   the setters write are those the attributes hold already. *)

RebindIds == {0, 1}

NextRebind ==
    \/ Command("bogus")
    \/ \E sp \in {0, 101} : SetDutyCycleSetpoint(sp)
    \/ SetPolarity(Normal)
    \/ SetRampUpSetpoint(5000)
    \/ SetRampDownSetpoint(5000)
    \/ SetStopAction("hold")
    \/ SetTimeSetpoint(0)
    \/ CommandsGetter
    \/ DutyCycle
    \/ DutyCycleSetpoint
    \/ Polarity
    \/ RampUpSetpoint
    \/ RampDownSetpoint
    \/ StopAction
    \/ StopActionsGetter
    \/ TimeSetpoint
    \/ Uevent
    \/ State
    \/ Err
    \/ \E id \in RebindIds : setID(id)

SpecRebind == Init /\ [][NextRebind]_vars

\* C18: setID(id) leaves the handle bound to id with a nil deferred error,
\* whatever error was pending, and touches no attribute; the setter called
\* next is not short-circuited (it performs I/O or stores its own error); and
\* a step that takes the deferred error from non-nil to nil is a step of Err,
\* of State or of setID.
C18_SetIDResets ==
    [][/\ call'.op = "setID"
             => /\ m' = [nil |-> FALSE, id |-> call'.num, err |-> NoErr]
                /\ store' = store
       /\ (call.op = "setID" /\ call'.op \in SetterOps)
             => io' # << >> \/ m'.err # NoErr
       /\ (m.err # NoErr /\ m'.err = NoErr)
             => call'.op \in {"Err", "State", "setID"}]_vars

\* C18 witness: SetDutyCycleSetpoint(101) returned the handle with its
\* validation error stored, and setID(1) has since rebound the handle: the
\* error is gone undrained.
C18_Witness ==
    /\ call.op = "setID" /\ call.num = 1
    /\ ret.h.err.kind = "invalid" /\ ret.h.err.num = 101
    /\ m.id = 1 /\ m.err = NoErr

----------------------------------------------------------------------------
(* State over raw texts with no token, or with a space that separates
   nothing. *)

SegmentTexts == {<< >>, <<"running">>, <<"running", " ", " ", "ramping">>,
                 <<" ", "running">>, <<"stalled", " ">>}

NextSegments ==
    \/ State
    \/ \E t \in SegmentTexts : DeviceChange(state, t)
    \/ \E sp \in DutyInputs : SetDutyCycleSetpoint(sp)
    \/ Err

SpecSegments == Init /\ [][NextSegments]_vars

\* The segments the split on single spaces gives for the texts drawn.
Segments(text) ==
    CASE text = << >> -> <<"">>
      [] text = <<"running">> -> <<"running">>
      [] text = <<"running", " ", "ramping">> -> <<"running", "ramping">>
      [] text = <<"running", " ", " ", "ramping">> -> <<"running", "", "ramping">>
      [] text = <<" ", "running">> -> <<"", "running">>
      [] text = <<"stalled", " ">> -> <<"stalled", "">>

\* C19: State looks up every segment of the split on single spaces, the
\* empty ones included: with the read successful and no error pending, a raw
\* text that is empty or has a doubled, a leading or a trailing space makes
\* State return 0 and the parse error naming the empty segment, the table
\* having no entry for it; on the empty text in particular State does not
\* return 0 with a nil error.
C19_EmptySegmentLookedUp ==
    [][(call'.op = "State" /\ m.err = NoErr /\ io' = <<Read(state, TRUE)>>)
          => /\ IF \E i \in 1..Len(Segments(store[state])) : Segments(store[state])[i] = ""
                THEN /\ ret'.val = 0
                     /\ ret'.err.kind = "unrecognized"
                     /\ ret'.err.str = ""
                     /\ ret'.err.avail = Segments(store[state])
                ELSE /\ ret'.err = NoErr
                     /\ ret'.val = SumBits(Tokens(store[state]))
             /\ (store[state] = << >> => ret'.err # NoErr)]_vars

\* C19 witness: the state attribute is empty, and State has read it and
\* returned 0 with the parse error for the segment "".
C19_Witness ==
    /\ call.op = "State"
    /\ store[state] = << >>
    /\ io = <<Read(state, TRUE)>>
    /\ ret.val = 0
    /\ ret.err.kind = "unrecognized" /\ ret.err.str = "" /\ ret.err.avail = <<"">>
    /\ m.err = NoErr

====
